---------------------------- MODULE Spec2Model ----------------------------
(***************************************************************************)
(* A model of the milk packet detector of raspberry_milk_detector.py: the  *)
(* decoding of the output tensor, non-maximum suppression, the performance *)
(* controller (frame skip and thresholds), the conveyor speed estimator    *)
(* and the camera loop that drives them.                                   *)
(*                                                                         *)
(* Numbers.  Thresholds and confidences are integers in hundredths (0.4 is *)
(* 40).  Normalised box parameters of an anchor are integers in hundredths *)
(* of the frame.  Times are integer clock ticks, TicksPerSec to a second.  *)
(* Speeds, IoU values and the published FPS are exact rationals, records   *)
(* [n, d] in lowest terms with d > 0.                                      *)
(***************************************************************************)
EXTENDS Integers, Sequences, FiniteSets, TLC

VARIABLES
    pc,                     \* position in main() and in the camera loop
    attempt,                \* 1: main's first start_*_detection, 2: its fallback
    args_target_fps,        \* args.target_fps
    args_low_latency,       \* args.low_latency
    confidence_threshold,
    nms_threshold,
    running,
    frame_count,
    fps,
    last_time,
    using_picamera2,
    conveyor_speed,
    target_fps,
    adaptive_processing,
    speed_detection_enabled,
    production_line_mode,
    speed_detection_frames,
    pixel_to_meter_ratio,
    frame_skip_counter,
    frame_skip_interval,
    low_latency_enabled,    \* "unset" while the attribute does not exist
    has_last_detections,    \* hasattr(self, 'last_detections')
    last_detections,
    has_last_result_frame,  \* hasattr(self, 'last_result_frame')
    detections,             \* the loop's local: what process_frame returned
    frame_path,             \* which path the last process_frame call took
    invoked,                \* the last process_frame call ran interpreter.invoke()
    camera_open,            \* the capture device is held
    now,                    \* the last value of time.time(), in ticks
    keys_pressed,           \* keys handled so far
    fn_in,                  \* the last direct call: its name and argument
    fn_out                  \* what it returned

vars == << pc, attempt, args_target_fps, args_low_latency,
           confidence_threshold, nms_threshold, running, frame_count, fps,
           last_time, using_picamera2, conveyor_speed, target_fps,
           adaptive_processing, speed_detection_enabled, production_line_mode,
           speed_detection_frames, pixel_to_meter_ratio, frame_skip_counter,
           frame_skip_interval, low_latency_enabled, has_last_detections,
           last_detections, has_last_result_frame, detections, frame_path,
           invoked, camera_open, now, keys_pressed, fn_in, fn_out >>

-----------------------------------------------------------------------------
(* Bounds of the model *)

\* Frames one run of main() reads (process_frame calls)
MaxFrames == 3

\* The clock stops advancing here
MaxTime == 2

\* Keys with a handler pressed in one run of main()
MaxKeys == 1

\* Clock ticks in one second
TicksPerSec == 2

\* Boxes in an input list of the suppression harness
MaxBoxes == 2

-----------------------------------------------------------------------------
(* Exact rationals *)

Abs(x) == IF x < 0 THEN -x ELSE x

Max(a, b) == IF a >= b THEN a ELSE b

Min(a, b) == IF a <= b THEN a ELSE b

RECURSIVE GCD(_, _)
GCD(a, b) == IF b = 0 THEN a ELSE GCD(b, a % b)

\* n/d in lowest terms, d > 0
Rat(n, d) ==
    LET g == GCD(Abs(n), d)
    IN  [n |-> n \div g, d |-> d \div g]

RatLess(a, b) == a.n * b.d < b.n * a.d

RatAdd(a, b) == Rat(a.n * b.d + b.n * a.d, a.d * b.d)

RatDivInt(a, k) == Rat(a.n, a.d * k)

Zero == Rat(0, 1)

-----------------------------------------------------------------------------
(* Detections: records [x1, y1, x2, y2, confidence, class_id] *)

\* Default camera resolution (width, height)
ImageWidth == 640

ImageHeight == 480

\* detect keeps at most this many candidates before suppression
MaxDetections == 10

Box(x1, y1, x2, y2, confidence) ==
    [x1 |-> x1, y1 |-> y1, x2 |-> x2, y2 |-> y2,
     confidence |-> confidence, class_id |-> 0]

\* an intersection over union whose union counts the first box twice
calculate_iou_first_area_twice(box1, box2) ==
    LET x1_i == Max(box1.x1, box2.x1)
        y1_i == Max(box1.y1, box2.y1)
        x2_i == Min(box1.x2, box2.x2)
        y2_i == Min(box1.y2, box2.y2)
        intersection == (x2_i - x1_i) * (y2_i - y1_i)
        area1 == (box1.x2 - box1.x1) * (box1.y2 - box1.y1)
        union == area1 + area1 - intersection
    IN  IF x2_i <= x1_i \/ y2_i <= y1_i
        THEN Zero
        ELSE IF union > 0 THEN Rat(intersection, union) ELSE Zero

\* an intersection over union that returns early only when the boxes are
\* apart on both axes
calculate_iou_apart_on_both(box1, box2) ==
    LET x1_i == Max(box1.x1, box2.x1)
        y1_i == Max(box1.y1, box2.y1)
        x2_i == Min(box1.x2, box2.x2)
        y2_i == Min(box1.y2, box2.y2)
        intersection == (x2_i - x1_i) * (y2_i - y1_i)
        area1 == (box1.x2 - box1.x1) * (box1.y2 - box1.y1)
        area2 == (box2.x2 - box2.x1) * (box2.y2 - box2.y1)
        union == area1 + area2 - intersection
    IN  IF x2_i <= x1_i /\ y2_i <= y1_i
        THEN Zero
        ELSE IF union > 0 THEN Rat(intersection, union) ELSE Zero

\* calculate_iou as the code computes it: the upper edge of the intersection
\* is max(y1_1, y2_2)
calculate_iou(box1, box2) ==
    LET x1_i == Max(box1.x1, box2.x1)
        y1_i == Max(box1.y1, box2.y2)
        x2_i == Min(box1.x2, box2.x2)
        y2_i == Min(box1.y2, box2.y2)
        intersection == (x2_i - x1_i) * (y2_i - y1_i)
        area1 == (box1.x2 - box1.x1) * (box1.y2 - box1.y1)
        area2 == (box2.x2 - box2.x1) * (box2.y2 - box2.y1)
        union == area1 + area2 - intersection
    IN  IF x2_i <= x1_i \/ y2_i <= y1_i
        THEN Zero
        ELSE IF union > 0 THEN Rat(intersection, union) ELSE Zero

\* a sort that puts an element before the earlier elements of its confidence
InsertByConfidence_before_equals(s, d) ==
    LET k == Cardinality({i \in 1..Len(s) : s[i].confidence > d.confidence})
    IN  SubSeq(s, 1, k) \o <<d>> \o SubSeq(s, k + 1, Len(s))

\* sorted(detections, key=lambda x: x[4], reverse=True): stable, so equal
\* confidences keep their input order
InsertByConfidence(s, d) ==
    LET k == Cardinality({i \in 1..Len(s) : s[i].confidence >= d.confidence})
    IN  SubSeq(s, 1, k) \o <<d>> \o SubSeq(s, k + 1, Len(s))

RECURSIVE SortByConfidence(_)
SortByConfidence(s) ==
    IF s = <<>> THEN <<>>
    ELSE InsertByConfidence(SortByConfidence(SubSeq(s, 1, Len(s) - 1)), s[Len(s)])

\* the while loop of non_max_suppression on a sorted list
RECURSIVE Suppress(_, _)
Suppress(dets, nms) ==
    IF dets = <<>> THEN <<>>
    ELSE LET current == Head(dets)
             Keep(d) == LET iou == calculate_iou(current, d)
                        IN  iou.n * 100 < nms * iou.d
         IN  <<current>> \o Suppress(SelectSeq(Tail(dets), Keep), nms)

non_max_suppression(dets, nms) ==
    IF dets = <<>> THEN <<>> ELSE Suppress(SortByConfidence(dets), nms)

\* the pixel conversion without the upper bound of np.clip
PixelCoord_unclipped_above(num, dim) ==
    IF num <= 0 THEN 0 ELSE (num * dim) \div 200

\* int(np.clip(v * dim, 0, dim)) for v = num / 200
PixelCoord(num, dim) ==
    IF num <= 0 THEN 0
    ELSE IF num >= 200 THEN dim
    ELSE (num * dim) \div 200

\* the decoding with the whole width and height taken on each side of the
\* centre
DecodeAnchor_full_extent(a, width, height) ==
    Box(PixelCoord(2 * a.cx - 2 * a.w, width), PixelCoord(2 * a.cy - 2 * a.h, height),
        PixelCoord(2 * a.cx + 2 * a.w, width), PixelCoord(2 * a.cy + 2 * a.h, height),
        a.confidence)

\* the decoding with the two corners exchanged
DecodeAnchor_swapped_corners(a, width, height) ==
    Box(PixelCoord(2 * a.cx + a.w, width), PixelCoord(2 * a.cy + a.h, height),
        PixelCoord(2 * a.cx - a.w, width), PixelCoord(2 * a.cy - a.h, height),
        a.confidence)

\* One anchor [cx, cy, w, h, confidence] of the output tensor as a detection
DecodeAnchor(a, width, height) ==
    Box(PixelCoord(2 * a.cx - a.w, width), PixelCoord(2 * a.cy - a.h, height),
        PixelCoord(2 * a.cx + a.w, width), PixelCoord(2 * a.cy + a.h, height),
        a.confidence)

\* The anchors with confidence >= threshold, decoded, in tensor order
RECURSIVE DecodeValid(_, _, _, _)
DecodeValid(output, threshold, width, height) ==
    IF output = <<>> THEN <<>>
    ELSE LET rest == DecodeValid(Tail(output), threshold, width, height)
         IN  IF Head(output).confidence >= threshold
             THEN <<DecodeAnchor(Head(output), width, height)>> \o rest
             ELSE rest

\* the cap taking the first ten candidates in tensor order
DetectOutput_first_ten(output, threshold, nms, width, height) ==
    LET valid  == DecodeValid(output, threshold, width, height)
        capped == IF Len(valid) > MaxDetections
                  THEN SubSeq(valid, 1, MaxDetections)
                  ELSE valid
    IN  IF Len(capped) > 1 THEN non_max_suppression(capped, nms) ELSE capped

\* detect after the interpreter returned `output`: filter, cap, suppress
DetectOutput(output, threshold, nms, width, height) ==
    LET valid  == DecodeValid(output, threshold, width, height)
        capped == IF Len(valid) > MaxDetections
                  THEN SubSeq(SortByConfidence(valid), 1, MaxDetections)
                  ELSE valid
    IN  IF Len(capped) > 1 THEN non_max_suppression(capped, nms) ELSE capped

-----------------------------------------------------------------------------
(* The detector object.  Each method is an operator from the attributes    *)
(* before the call (the record self) to the attributes after it.           *)

Self ==
    [confidence_threshold    |-> confidence_threshold,
     nms_threshold           |-> nms_threshold,
     running                 |-> running,
     frame_count             |-> frame_count,
     fps                     |-> fps,
     last_time               |-> last_time,
     using_picamera2         |-> using_picamera2,
     conveyor_speed          |-> conveyor_speed,
     target_fps              |-> target_fps,
     adaptive_processing     |-> adaptive_processing,
     speed_detection_enabled |-> speed_detection_enabled,
     production_line_mode    |-> production_line_mode,
     speed_detection_frames  |-> speed_detection_frames,
     pixel_to_meter_ratio    |-> pixel_to_meter_ratio,
     frame_skip_counter      |-> frame_skip_counter,
     frame_skip_interval     |-> frame_skip_interval,
     low_latency_enabled     |-> low_latency_enabled,
     has_last_detections     |-> has_last_detections,
     last_detections         |-> last_detections,
     has_last_result_frame   |-> has_last_result_frame]

\* The attributes after a call are those of the record s
Becomes(s) ==
    /\ confidence_threshold'    = s.confidence_threshold
    /\ nms_threshold'           = s.nms_threshold
    /\ running'                 = s.running
    /\ frame_count'             = s.frame_count
    /\ fps'                     = s.fps
    /\ last_time'               = s.last_time
    /\ using_picamera2'         = s.using_picamera2
    /\ conveyor_speed'          = s.conveyor_speed
    /\ target_fps'              = s.target_fps
    /\ adaptive_processing'     = s.adaptive_processing
    /\ speed_detection_enabled' = s.speed_detection_enabled
    /\ production_line_mode'    = s.production_line_mode
    /\ speed_detection_frames'  = s.speed_detection_frames
    /\ pixel_to_meter_ratio'    = s.pixel_to_meter_ratio
    /\ frame_skip_counter'      = s.frame_skip_counter
    /\ frame_skip_interval'     = s.frame_skip_interval
    /\ low_latency_enabled'     = s.low_latency_enabled
    /\ has_last_detections'     = s.has_last_detections
    /\ last_detections'         = s.last_detections
    /\ has_last_result_frame'   = s.has_last_result_frame

\* __init__(model_path, confidence_threshold, nms_threshold)
Constructed(confidence, nms) ==
    [confidence_threshold    |-> confidence,
     nms_threshold           |-> nms,
     running                 |-> FALSE,
     frame_count             |-> 0,
     fps                     |-> Zero,
     last_time               |-> 0,
     using_picamera2         |-> FALSE,
     conveyor_speed          |-> Zero,
     target_fps              |-> Rat(60, 1),
     adaptive_processing     |-> TRUE,
     speed_detection_enabled |-> TRUE,
     production_line_mode    |-> FALSE,
     speed_detection_frames  |-> <<>>,
     pixel_to_meter_ratio    |-> 1,
     frame_skip_counter      |-> 0,
     frame_skip_interval     |-> 1,
     low_latency_enabled     |-> "unset",
     has_last_detections     |-> FALSE,
     last_detections         |-> <<>>,
     has_last_result_frame   |-> FALSE]

\* set_frame_skip without the max(1, interval) clamp
set_frame_skip_unclamped(self, interval) ==
    [self EXCEPT !.frame_skip_interval = interval]

set_frame_skip(self, interval) ==
    [self EXCEPT !.frame_skip_interval = Max(1, interval)]

enable_low_latency_mode(self) ==
    [self EXCEPT !.frame_skip_interval = 1,
                 !.target_fps = Rat(60, 1),
                 !.confidence_threshold = IF @ > 40 THEN 40 ELSE @,
                 !.nms_threshold = IF @ > 30 THEN 30 ELSE @,
                 !.adaptive_processing = TRUE]

\* required_fps = speed_mps / 0.1
RequiredFps(speed_mps) == Rat(10 * speed_mps.n, speed_mps.d)

set_conveyor_speed(self, speed_mps) ==
    LET required_fps == RequiredFps(speed_mps)
        clamped == IF RatLess(required_fps, Rat(5, 1)) THEN Rat(5, 1)
                   ELSE IF RatLess(Rat(30, 1), required_fps) THEN Rat(30, 1)
                   ELSE required_fps
    IN  IF RatLess(Zero, speed_mps)
        THEN [self EXCEPT !.conveyor_speed = speed_mps,
                          !.target_fps = clamped,
                          !.frame_skip_interval =
                              IF RatLess(Rat(20, 1), required_fps) THEN 3
                              ELSE IF RatLess(Rat(15, 1), required_fps) THEN 2
                              ELSE 1]
        ELSE [self EXCEPT !.conveyor_speed = speed_mps]

\* auto_adjust_processing raising the confidence threshold by a step instead
\* of raising it to a floor
auto_adjust_processing_stepping(self) ==
    IF ~RatLess(Zero, self.conveyor_speed)
    THEN self
    ELSE [self EXCEPT
            !.frame_skip_interval =
                IF RatLess(Rat(25, 1), RequiredFps(self.conveyor_speed)) THEN 3
                ELSE IF RatLess(Rat(15, 1), RequiredFps(self.conveyor_speed)) THEN 2
                ELSE 1,
            !.confidence_threshold =
                IF RatLess(Rat(2, 1), self.conveyor_speed) THEN @ + 20
                ELSE IF RatLess(Rat(1, 1), self.conveyor_speed) THEN @ + 10
                ELSE @]

\* auto_adjust_processing assigning the confidence threshold of the speed band
\* instead of raising a lower one to it
auto_adjust_processing_assigning(self) ==
    IF ~RatLess(Zero, self.conveyor_speed)
    THEN self
    ELSE [self EXCEPT
            !.frame_skip_interval =
                IF RatLess(Rat(25, 1), RequiredFps(self.conveyor_speed)) THEN 3
                ELSE IF RatLess(Rat(15, 1), RequiredFps(self.conveyor_speed)) THEN 2
                ELSE 1,
            !.confidence_threshold =
                IF RatLess(Rat(2, 1), self.conveyor_speed) THEN 70
                ELSE IF RatLess(Rat(1, 1), self.conveyor_speed) THEN 60
                ELSE @]

auto_adjust_processing(self) ==
    LET required_detection_freq == RequiredFps(self.conveyor_speed)
        new_interval == IF RatLess(Rat(25, 1), required_detection_freq) THEN 3
                        ELSE IF RatLess(Rat(15, 1), required_detection_freq) THEN 2
                        ELSE 1
    IN  IF ~RatLess(Zero, self.conveyor_speed)
        THEN self
        ELSE [self EXCEPT
                !.frame_skip_interval = new_interval,
                !.confidence_threshold =
                    IF RatLess(Rat(2, 1), self.conveyor_speed)
                    THEN (IF @ < 70 THEN 70 ELSE @)
                    ELSE IF RatLess(Rat(1, 1), self.conveyor_speed)
                    THEN (IF @ < 60 THEN 60 ELSE @)
                    ELSE @]

enable_production_line_mode(self) ==
    [self EXCEPT !.production_line_mode = TRUE,
                 !.adaptive_processing = TRUE,
                 !.speed_detection_enabled = TRUE,
                 !.pixel_to_meter_ratio = 1000]

\* optimize_for_performance with strict comparisons at the band edges
optimize_for_performance_strict(self, fps_wanted) ==
    [self EXCEPT !.frame_skip_interval =
        IF fps_wanted > 50 THEN 1
        ELSE IF fps_wanted > 30 THEN 1
        ELSE IF fps_wanted > 15 THEN 2
        ELSE 3]

optimize_for_performance(self, fps_wanted) ==
    [self EXCEPT !.frame_skip_interval =
        IF fps_wanted >= 50 THEN 1
        ELSE IF fps_wanted >= 30 THEN 1
        ELSE IF fps_wanted >= 15 THEN 2
        ELSE 3]

calculate_fps(self, current_time) ==
    LET count == self.frame_count + 1
    IN  IF current_time - self.last_time >= TicksPerSec
        THEN [self EXCEPT !.fps = Rat(count * TicksPerSec, current_time - self.last_time),
                          !.frame_count = 0,
                          !.last_time = current_time]
        ELSE [self EXCEPT !.frame_count = count]

\* One motion sample per detection; center_x and center_y hold twice the
\* centre, (x1 + x2) and (y1 + y2), so that they stay integers
RECURSIVE MotionSamples(_, _)
MotionSamples(dets, current_time) ==
    IF dets = <<>> THEN <<>>
    ELSE <<[timestamp  |-> current_time,
            center_x   |-> Head(dets).x1 + Head(dets).x2,
            center_y   |-> Head(dets).y1 + Head(dets).y2,
            confidence |-> Head(dets).confidence]>>
         \o MotionSamples(Tail(dets), current_time)

\* HorizontalMovements taking every pair separated in time, whatever its
\* direction
RECURSIVE HorizontalMovements_any_axis(_, _, _)
HorizontalMovements_any_axis(frames, ratio, i) ==
    IF i > Len(frames) THEN <<>>
    ELSE LET prev_frame == frames[i - 1]
             curr_frame == frames[i]
             time_diff  == curr_frame.timestamp - prev_frame.timestamp
             x_diff     == curr_frame.center_x - prev_frame.center_x
             speed_mps  == Rat(Abs(x_diff) * TicksPerSec, 2 * ratio * time_diff)
             rest       == HorizontalMovements_any_axis(frames, ratio, i + 1)
         IN  IF time_diff > 0
             THEN IF RatLess(Rat(1, 100), speed_mps) /\ RatLess(speed_mps, Rat(10, 1))
                  THEN <<speed_mps>> \o rest
                  ELSE rest
             ELSE rest

\* The speeds of the successive pairs of `frames` from pair i on that are
\* horizontal, separated in time and within the 0.01 .. 10 m/s band
RECURSIVE HorizontalMovements(_, _, _)
HorizontalMovements(frames, ratio, i) ==
    IF i > Len(frames) THEN <<>>
    ELSE LET prev_frame == frames[i - 1]
             curr_frame == frames[i]
             time_diff  == curr_frame.timestamp - prev_frame.timestamp
             x_diff     == curr_frame.center_x - prev_frame.center_x
             y_diff     == curr_frame.center_y - prev_frame.center_y
             speed_mps  == Rat(Abs(x_diff) * TicksPerSec, 2 * ratio * time_diff)
             rest       == HorizontalMovements(frames, ratio, i + 1)
         IN  IF Abs(x_diff) > Abs(y_diff) /\ time_diff > 0
             THEN IF RatLess(Rat(1, 100), speed_mps) /\ RatLess(speed_mps, Rat(10, 1))
                  THEN <<speed_mps>> \o rest
                  ELSE rest
             ELSE rest

RECURSIVE RatSum(_)
RatSum(s) == IF s = <<>> THEN Zero ELSE RatAdd(Head(s), RatSum(Tail(s)))

\* RememberSamples keeping the samples that are exactly five seconds old
RememberSamples_to_the_second(self, dets, current_time) ==
    [self EXCEPT !.speed_detection_frames =
        SelectSeq(@ \o MotionSamples(dets, current_time),
                  LAMBDA f : f.timestamp >= current_time - 5 * TicksPerSec)]

\* self.speed_detection_frames after the new samples are appended and the
\* samples older than five seconds are dropped
RememberSamples(self, dets, current_time) ==
    [self EXCEPT !.speed_detection_frames =
        SelectSeq(@ \o MotionSamples(dets, current_time),
                  LAMBDA f : f.timestamp > current_time - 5 * TicksPerSec)]

\* self.conveyor_speed = avg_speed, then auto_adjust_processing when adaptive
MeasuredSpeed(self, avg_speed) ==
    IF self.adaptive_processing
    THEN auto_adjust_processing([self EXCEPT !.conveyor_speed = avg_speed])
    ELSE [self EXCEPT !.conveyor_speed = avg_speed]

\* The estimate from the stored samples: needs three samples and one movement
AverageSpeed(self, horizontal_movements) ==
    IF Len(self.speed_detection_frames) >= 3 /\ horizontal_movements # <<>>
    THEN MeasuredSpeed(self, RatDivInt(RatSum(horizontal_movements),
                                       Len(horizontal_movements)))
    ELSE self

detect_conveyor_speed(self, dets, current_time) ==
    IF ~self.speed_detection_enabled \/ dets = <<>>
    THEN self
    ELSE AverageSpeed(RememberSamples(self, dets, current_time),
                      HorizontalMovements(
                          RememberSamples(self, dets, current_time).speed_detection_frames,
                          self.pixel_to_meter_ratio, 2))

\* The end of detect: the list is cached and returned
Detected(self, valid_detections) ==
    [self |-> [self EXCEPT !.last_detections = valid_detections,
                           !.has_last_detections = TRUE],
     result |-> valid_detections, invoked |-> TRUE, raised |-> FALSE]

\* detect filtering the anchors by nms_threshold instead of
\* confidence_threshold
detect_by_nms_threshold(self, output, infer_ok) ==
    IF /\ self.frame_skip_interval > 1
       /\ self.frame_count % self.frame_skip_interval # 0
       /\ self.has_last_detections
    THEN [self |-> self, result |-> self.last_detections,
          invoked |-> FALSE, raised |-> FALSE]
    ELSE IF ~infer_ok
    THEN [self |-> self, result |-> <<>>, invoked |-> TRUE, raised |-> TRUE]
    ELSE Detected(self, DetectOutput(output, self.nms_threshold,
                                     self.nms_threshold, ImageWidth, ImageHeight))

\* detect(image): the interpreter returns `output`, or raises when ~infer_ok.
\* The result is [self, result, invoked, raised].
detect(self, output, infer_ok) ==
    IF /\ self.frame_skip_interval > 1
       /\ self.frame_count % self.frame_skip_interval # 0
       /\ self.has_last_detections
    THEN [self |-> self, result |-> self.last_detections,
          invoked |-> FALSE, raised |-> FALSE]
    ELSE IF ~infer_ok
    THEN [self |-> self, result |-> <<>>, invoked |-> TRUE, raised |-> TRUE]
    ELSE Detected(self, DetectOutput(output, self.confidence_threshold,
                                     self.nms_threshold, ImageWidth, ImageHeight))

\* The speed estimation step of process_frame
Tracked(self, dets, current_time) ==
    IF self.production_line_mode /\ self.speed_detection_enabled
    THEN detect_conveyor_speed(self, dets, current_time)
    ELSE self

\* The end of process_frame: the frame is annotated and the caches are stored
Annotated(self, run) ==
    [self |-> [self EXCEPT
                 !.last_detections = run.result,
                 !.has_last_detections = TRUE,
                 !.has_last_result_frame =
                     IF self.frame_count % 2 = 0 THEN TRUE ELSE @],
     detections |-> run.result,
     path |-> IF run.invoked THEN "pass" ELSE "cached",
     invoked |-> run.invoked, raised |-> FALSE]

\* process_frame after self.detect(frame) returned `run` or raised
AfterDetect(run, current_time) ==
    IF run.raised
    THEN [self |-> run.self, detections |-> <<>>,
          path |-> "error", invoked |-> run.invoked, raised |-> TRUE]
    ELSE Annotated(Tracked(run.self, run.result, current_time), run)

\* process_frame without its early return for skipped frames
process_frame_without_skip(self, output, infer_ok, current_time) ==
    AfterDetect(detect([self EXCEPT !.frame_skip_counter = @ + 1],
                       output, infer_ok),
                current_time)

\* process_frame choosing the skipped frames by frame_skip_counter and
\* returning the cache without asking whether it exists
process_frame_by_skip_counter(self, output, infer_ok, current_time) ==
    IF /\ self.frame_skip_interval > 1
       /\ (self.frame_skip_counter + 1) % self.frame_skip_interval # 0
    THEN [self |-> calculate_fps([self EXCEPT !.frame_skip_counter = @ + 1],
                                 current_time),
          detections |-> self.last_detections,
          path |-> "skip", invoked |-> FALSE, raised |-> FALSE]
    ELSE AfterDetect(detect([self EXCEPT !.frame_skip_counter = @ + 1],
                            output, infer_ok),
                     current_time)

\* process_frame(frame): [self, detections, path, invoked, raised]
process_frame(self, output, infer_ok, current_time) ==
    IF /\ self.frame_skip_interval > 1
       /\ self.frame_count % self.frame_skip_interval # 0
       /\ self.has_last_detections
       /\ self.has_last_result_frame
    THEN [self |-> calculate_fps([self EXCEPT !.frame_skip_counter = @ + 1],
                                 current_time),
          detections |-> self.last_detections,
          path |-> "skip", invoked |-> FALSE, raised |-> FALSE]
    ELSE AfterDetect(detect([self EXCEPT !.frame_skip_counter = @ + 1],
                            output, infer_ok),
                     current_time)

-----------------------------------------------------------------------------
(* Inputs *)

\* --confidence and --nms, in hundredths; argparse takes any float
ConfidenceArgs == {80, 150}

NmsArgs == {40}

\* --target-fps
TargetFpsArgs == {20, 60}

Anchor(cx, cy, w, h, confidence) ==
    [cx |-> cx, cy |-> cy, w |-> w, h |-> h, confidence |-> confidence]

\* Output tensors the interpreter returns in the camera loop: one packet at
\* the left, with a second anchor of low confidence; two anchors on one
\* packet at the right (geometric IoU 0.8)
Outputs ==
    { <<Anchor(10, 50, 20, 20, 65), Anchor(50, 50, 20, 20, 20)>>,
      <<Anchor(90, 50, 20, 20, 90), Anchor(90, 50, 20, 16, 60)>> }

\* Speeds typed after key 'v' or given as --conveyor-speed, in m/s
SpeedInputs == {Rat(-1, 1), Rat(3, 1)}

\* Keys pressed for set_frame_skip in the camera loop (of '1', '2', '3')
FrameSkipKeys == {1, 2, 3}

-----------------------------------------------------------------------------
(* main() and the camera loop *)

CallVars == << detections, frame_path, invoked >>

ArgVars == << args_target_fps, args_low_latency >>

\* What time.time() may return next: the clock does not go back
Later == now .. MaxTime

Pressed == keys_pressed < MaxKeys /\ keys_pressed' = keys_pressed + 1

FnVars == << fn_in, fn_out >>

InLoop == pc \in {"read", "tail"}

\* The state after RaspberryMilkDetector(args.model, args.confidence, args.nms)
Init ==
    /\ pc = "main_perf"
    /\ attempt = 1
    /\ args_target_fps \in TargetFpsArgs
    /\ args_low_latency \in BOOLEAN
    /\ \E c \in ConfidenceArgs, n \in NmsArgs :
          /\ confidence_threshold = c
          /\ nms_threshold = n
          /\ running = Constructed(c, n).running
          /\ frame_count = Constructed(c, n).frame_count
          /\ fps = Constructed(c, n).fps
          /\ last_time = Constructed(c, n).last_time
          /\ using_picamera2 = Constructed(c, n).using_picamera2
          /\ conveyor_speed = Constructed(c, n).conveyor_speed
          /\ target_fps = Constructed(c, n).target_fps
          /\ adaptive_processing = Constructed(c, n).adaptive_processing
          /\ speed_detection_enabled = Constructed(c, n).speed_detection_enabled
          /\ production_line_mode = Constructed(c, n).production_line_mode
          /\ speed_detection_frames = Constructed(c, n).speed_detection_frames
          /\ pixel_to_meter_ratio = Constructed(c, n).pixel_to_meter_ratio
          /\ frame_skip_counter = Constructed(c, n).frame_skip_counter
          /\ frame_skip_interval = Constructed(c, n).frame_skip_interval
          /\ low_latency_enabled = Constructed(c, n).low_latency_enabled
          /\ has_last_detections = Constructed(c, n).has_last_detections
          /\ last_detections = Constructed(c, n).last_detections
          /\ has_last_result_frame = Constructed(c, n).has_last_result_frame
    /\ detections = <<>>
    /\ frame_path = "none"
    /\ invoked = FALSE
    /\ camera_open = FALSE
    /\ now = 0
    /\ keys_pressed = 0
    /\ fn_in = <<>>
    /\ fn_out = <<>>

\* main: --performance-mode speed and quality both ask for 60 FPS, balanced
\* for args.target_fps
MainPerformanceMode ==
    /\ pc = "main_perf"
    /\ \E mode \in {"speed", "quality", "balanced"} :
          Becomes(optimize_for_performance(Self,
                    IF mode = "balanced" THEN args_target_fps ELSE 60))
    /\ pc' = "main_conveyor"
    /\ UNCHANGED << attempt, ArgVars, CallVars, camera_open, now, keys_pressed, FnVars >>

\* main: without --conveyor-mode, or with it and a --conveyor-speed > 0
\* (--conveyor-mode alone is what key 'c' does in the loop)
MainConveyorMode ==
    /\ pc = "main_conveyor"
    /\ \/ UNCHANGED << confidence_threshold, nms_threshold, running, frame_count,
                       fps, last_time, using_picamera2, conveyor_speed, target_fps,
                       adaptive_processing, speed_detection_enabled,
                       production_line_mode, speed_detection_frames,
                       pixel_to_meter_ratio, frame_skip_counter, frame_skip_interval,
                       low_latency_enabled, has_last_detections, last_detections,
                       has_last_result_frame >>
       \/ \E speed \in SpeedInputs :
             /\ RatLess(Zero, speed)
             /\ Becomes(set_conveyor_speed(enable_production_line_mode(Self), speed))
    /\ pc' = "main_low_latency"
    /\ UNCHANGED << attempt, ArgVars, CallVars, camera_open, now, keys_pressed, FnVars >>

\* main: --low-latency
MainLowLatency ==
    /\ pc = "main_low_latency"
    /\ Becomes(IF args_low_latency THEN enable_low_latency_mode(Self) ELSE Self)
    /\ pc' = "start"
    /\ UNCHANGED << attempt, ArgVars, CallVars, camera_open, now, keys_pressed, FnVars >>

\* start_camera_detection up to the loop: main's first call without
\* --use-picamera2, start_picamera2_detection's fallback when picamera2 cannot
\* be imported, and main's fallback after an exception
StartCameraDetection ==
    /\ pc = "start"
    /\ \/ /\ camera_open' = TRUE
          /\ Becomes([optimize_for_performance(Self, args_target_fps)
                        EXCEPT !.using_picamera2 = FALSE, !.running = TRUE])
          /\ pc' = "read"
       \/ /\ camera_open' = FALSE       \* the camera could not be opened
          /\ Becomes(optimize_for_performance(Self, args_target_fps))
          /\ pc' = "done"
    /\ UNCHANGED << attempt, ArgVars, CallVars, now, keys_pressed, FnVars >>

\* start_picamera2_detection up to the loop: main's first call with
\* --use-picamera2
StartPicamera2Detection ==
    /\ pc = "start"
    /\ attempt = 1
    /\ camera_open' = TRUE
    /\ Becomes([optimize_for_performance(Self, args_target_fps)
                  EXCEPT !.using_picamera2 = TRUE, !.running = TRUE])
    /\ pc' = "read"
    /\ UNCHANGED << attempt, ArgVars, CallVars, now, keys_pressed, FnVars >>

\* The finally clause of the loop
\* a finally clause that leaves self.running set
Stopped_still_running(self) == self

\* finally: self.running = False
Stopped(self) == [self EXCEPT !.running = FALSE]

\* cap.read() fails: break, then finally
ReadFails ==
    /\ pc = "read"
    /\ running
    /\ ~using_picamera2
    /\ Becomes(Stopped(Self))
    /\ camera_open' = FALSE
    /\ pc' = "done"
    /\ UNCHANGED << attempt, ArgVars, CallVars, now, keys_pressed, FnVars >>

\* What the loop does with the outcome r of process_frame
Returns(r) ==
    /\ frame_path' = r.path
    /\ invoked' = r.invoked
    /\ IF r.raised
       THEN /\ Becomes(Stopped(r.self))
            /\ camera_open' = FALSE
            /\ detections' = detections
            /\ attempt' = 2
            /\ pc' = IF attempt = 1 THEN "start" ELSE "crashed"
       ELSE /\ Becomes(r.self)
            /\ camera_open' = camera_open
            /\ detections' = r.detections
            /\ attempt' = attempt
            /\ pc' = "tail"

\* A frame is read and result_frame, detections = self.process_frame(frame)
\* runs.  An exception of the interpreter leaves the loop through finally;
\* main catches it once and calls start_camera_detection again.
ProcessFrame ==
    /\ pc = "read"
    /\ running
    /\ frame_skip_counter < MaxFrames
    /\ \E output \in Outputs, infer_ok \in BOOLEAN, current_time \in Later :
          /\ now' = current_time
          /\ Returns(process_frame(Self, output, infer_ok, current_time))
    /\ UNCHANGED << ArgVars, keys_pressed, FnVars >>

\* The rest of the loop body starts with the loop's own self.calculate_fps()
Counted(current_time) == calculate_fps(Self, current_time)

\* cv2.waitKey(1): no key, 's' (save), or a key without a handler
KeyNone ==
    /\ pc = "tail"
    /\ \E t \in Later : now' = t /\ Becomes(Counted(t))
    /\ pc' = "read"
    /\ UNCHANGED << attempt, ArgVars, CallVars, camera_open, keys_pressed, FnVars >>

\* 'q': break, then finally
KeyQuit ==
    /\ pc = "tail"
    /\ Pressed
    /\ \E t \in Later : now' = t /\ Becomes(Stopped(Counted(t)))
    /\ camera_open' = FALSE
    /\ pc' = "done"
    /\ UNCHANGED << attempt, ArgVars, CallVars, FnVars >>

\* '1', '2', '3'
KeyFrameSkip ==
    /\ pc = "tail"
    /\ Pressed
    /\ \E t \in Later, interval \in FrameSkipKeys :
          now' = t /\ Becomes(set_frame_skip(Counted(t), interval))
    /\ pc' = "read"
    /\ UNCHANGED << attempt, ArgVars, CallVars, camera_open, FnVars >>

\* 'c': toggle conveyor mode
ToggleConveyor(self) ==
    IF ~self.production_line_mode
    THEN enable_production_line_mode(self)
    ELSE [self EXCEPT !.production_line_mode = FALSE,
                      !.speed_detection_enabled = FALSE]

KeyConveyor ==
    /\ pc = "tail"
    /\ Pressed
    /\ \E t \in Later : now' = t /\ Becomes(ToggleConveyor(Counted(t)))
    /\ pc' = "read"
    /\ UNCHANGED << attempt, ArgVars, CallVars, camera_open, FnVars >>

\* 'v': a speed is typed (a text that is no number changes nothing)
KeySpeed ==
    /\ pc = "tail"
    /\ Pressed
    /\ \E t \in Later, speed \in SpeedInputs :
          now' = t /\ Becomes(set_conveyor_speed(Counted(t), speed))
    /\ pc' = "read"
    /\ UNCHANGED << attempt, ArgVars, CallVars, camera_open, FnVars >>

\* 'l': toggle low-latency mode
ToggleLowLatency(self) ==
    IF self.low_latency_enabled = "true"
    THEN [self EXCEPT !.low_latency_enabled = "false",
                      !.frame_skip_interval = 2,
                      !.target_fps = Rat(15, 1)]
    ELSE [enable_low_latency_mode(self) EXCEPT !.low_latency_enabled = "true"]

KeyLowLatency ==
    /\ pc = "tail"
    /\ Pressed
    /\ \E t \in Later : now' = t /\ Becomes(ToggleLowLatency(Counted(t)))
    /\ pc' = "read"
    /\ UNCHANGED << attempt, ArgVars, CallVars, camera_open, FnVars >>

\* SIGINT in the loop body: signal_handler calls sys.exit(0);
\* SystemExit runs the finally clause and is not caught by main
Interrupt ==
    /\ pc = "tail"
    /\ Becomes(Stopped(Self))
    /\ camera_open' = FALSE
    /\ pc' = "exited"
    /\ UNCHANGED << attempt, ArgVars, CallVars, now, keys_pressed, FnVars >>

Next ==
    \/ MainPerformanceMode
    \/ MainConveyorMode
    \/ MainLowLatency
    \/ StartCameraDetection
    \/ StartPicamera2Detection
    \/ ReadFails
    \/ ProcessFrame
    \/ KeyNone
    \/ KeyQuit
    \/ KeyFrameSkip
    \/ KeyConveyor
    \/ KeySpeed
    \/ KeyLowLatency
    \/ Interrupt

Spec == Init /\ [][Next]_vars

-----------------------------------------------------------------------------
(* The detector used as a library: a client constructs it and calls its    *)
(* methods in any order with any argument.                                 *)

\* confidence_threshold and nms_threshold given to the constructor
ApiThresholds == {0, 50, 100}

\* Arguments of set_frame_skip
ApiIntervals == -2 .. 4

\* Arguments of optimize_for_performance
ApiTargetFps == {-1, 0, 10, 14, 15, 29, 30, 49, 50, 60}

\* Arguments of set_conveyor_speed, in m/s
ApiSpeeds == {Rat(-1, 1), Zero, Rat(1, 2), Rat(6, 5), Rat(9, 5), Rat(11, 5), Rat(3, 1)}

\* Output tensors for detect
ApiOutputs ==
    { <<Anchor(50, 50, 20, 20, 45), Anchor(20, 20, 10, 10, 30)>>,
      <<Anchor(50, 50, 20, 20, 90), Anchor(50, 50, 20, 16, 60),
        Anchor(20, 50, 20, 20, 100)>> }

Call(name, arg) == [call |-> name, arg |-> arg]

LoopVars == << pc, attempt, ArgVars, CallVars, camera_open, now, keys_pressed >>

InitApi ==
    /\ pc = "api"
    /\ attempt = 1
    /\ args_target_fps = 60
    /\ args_low_latency = FALSE
    /\ \E c \in ApiThresholds, n \in ApiThresholds :
          /\ confidence_threshold = c
          /\ nms_threshold = n
          /\ running = Constructed(c, n).running
          /\ frame_count = Constructed(c, n).frame_count
          /\ fps = Constructed(c, n).fps
          /\ last_time = Constructed(c, n).last_time
          /\ using_picamera2 = Constructed(c, n).using_picamera2
          /\ conveyor_speed = Constructed(c, n).conveyor_speed
          /\ target_fps = Constructed(c, n).target_fps
          /\ adaptive_processing = Constructed(c, n).adaptive_processing
          /\ speed_detection_enabled = Constructed(c, n).speed_detection_enabled
          /\ production_line_mode = Constructed(c, n).production_line_mode
          /\ speed_detection_frames = Constructed(c, n).speed_detection_frames
          /\ pixel_to_meter_ratio = Constructed(c, n).pixel_to_meter_ratio
          /\ frame_skip_counter = Constructed(c, n).frame_skip_counter
          /\ frame_skip_interval = Constructed(c, n).frame_skip_interval
          /\ low_latency_enabled = Constructed(c, n).low_latency_enabled
          /\ has_last_detections = Constructed(c, n).has_last_detections
          /\ last_detections = Constructed(c, n).last_detections
          /\ has_last_result_frame = Constructed(c, n).has_last_result_frame
    /\ detections = <<>>
    /\ frame_path = "none"
    /\ invoked = FALSE
    /\ camera_open = FALSE
    /\ now = 0
    /\ keys_pressed = 0
    /\ fn_in = Call("none", 0)
    /\ fn_out = <<>>

ApiSetFrameSkip ==
    /\ pc = "api"
    /\ \E interval \in ApiIntervals :
          /\ Becomes(set_frame_skip(Self, interval))
          /\ fn_in' = Call("set_frame_skip", interval)
    /\ UNCHANGED << LoopVars, fn_out >>

ApiOptimizeForPerformance ==
    /\ pc = "api"
    /\ \E fps_wanted \in ApiTargetFps :
          /\ Becomes(optimize_for_performance(Self, fps_wanted))
          /\ fn_in' = Call("optimize_for_performance", fps_wanted)
    /\ UNCHANGED << LoopVars, fn_out >>

ApiEnableLowLatencyMode ==
    /\ pc = "api"
    /\ Becomes(enable_low_latency_mode(Self))
    /\ fn_in' = Call("enable_low_latency_mode", 0)
    /\ UNCHANGED << LoopVars, fn_out >>

\* What the handler of key 'l' does
ApiToggleLowLatency ==
    /\ pc = "api"
    /\ Becomes(ToggleLowLatency(Self))
    /\ fn_in' = Call("toggle_low_latency", 0)
    /\ UNCHANGED << LoopVars, fn_out >>

ApiSetConveyorSpeed ==
    /\ pc = "api"
    /\ \E speed \in ApiSpeeds :
          /\ Becomes(set_conveyor_speed(Self, speed))
          /\ fn_in' = Call("set_conveyor_speed", speed)
    /\ UNCHANGED << LoopVars, fn_out >>

ApiAutoAdjustProcessing ==
    /\ pc = "api"
    /\ Becomes(auto_adjust_processing(Self))
    /\ fn_in' = Call("auto_adjust_processing", 0)
    /\ UNCHANGED << LoopVars, fn_out >>

DetectReturns(r) ==
    /\ Becomes(r.self)
    /\ fn_out' = r.result

\* detect(image) with the interpreter returning `output`
ApiDetect ==
    /\ pc = "api"
    /\ \E output \in ApiOutputs :
          /\ DetectReturns(detect(Self, output, TRUE))
          /\ fn_in' = Call("detect", output)
    /\ UNCHANGED << LoopVars >>

NextApi ==
    \/ ApiSetFrameSkip
    \/ ApiOptimizeForPerformance
    \/ ApiEnableLowLatencyMode
    \/ ApiToggleLowLatency
    \/ ApiSetConveyorSpeed
    \/ ApiAutoAdjustProcessing
    \/ ApiDetect

SpecApi == InitApi /\ [][NextApi]_vars

-----------------------------------------------------------------------------
(* non_max_suppression and calculate_iou called on their own               *)

\* Left and right edges of the boxes: overlapping, nested, empty, inverted
BoxColumns == {<<0, 4>>, <<0, 5>>, <<4, 5>>, <<5, 5>>, <<5, 0>>}

\* Upper and lower edges
BoxRows == {<<0, 1>>, <<0, 2>>, <<1, 1>>}

BoxConfidences == {60, 90}

NmsThresholds == {40, 100}

Boxes ==
    { Box(c[1], r[1], c[2], r[2], confidence) :
        c \in BoxColumns, r \in BoxRows, confidence \in BoxConfidences }

\* The lists of at most MaxBoxes detections
BoxLists == UNION { [1..k -> Boxes] : k \in 0..MaxBoxes }

InitNms ==
    /\ pc = "nms"
    /\ attempt = 1
    /\ args_target_fps = 60
    /\ args_low_latency = FALSE
    /\ confidence_threshold = 50
    /\ \E n \in NmsThresholds, dets \in BoxLists :
          /\ nms_threshold = n
          /\ fn_in = Call("none", dets)
    /\ running = Constructed(50, nms_threshold).running
    /\ frame_count = Constructed(50, nms_threshold).frame_count
    /\ fps = Constructed(50, nms_threshold).fps
    /\ last_time = Constructed(50, nms_threshold).last_time
    /\ using_picamera2 = Constructed(50, nms_threshold).using_picamera2
    /\ conveyor_speed = Constructed(50, nms_threshold).conveyor_speed
    /\ target_fps = Constructed(50, nms_threshold).target_fps
    /\ adaptive_processing = Constructed(50, nms_threshold).adaptive_processing
    /\ speed_detection_enabled = Constructed(50, nms_threshold).speed_detection_enabled
    /\ production_line_mode = Constructed(50, nms_threshold).production_line_mode
    /\ speed_detection_frames = Constructed(50, nms_threshold).speed_detection_frames
    /\ pixel_to_meter_ratio = Constructed(50, nms_threshold).pixel_to_meter_ratio
    /\ frame_skip_counter = Constructed(50, nms_threshold).frame_skip_counter
    /\ frame_skip_interval = Constructed(50, nms_threshold).frame_skip_interval
    /\ low_latency_enabled = Constructed(50, nms_threshold).low_latency_enabled
    /\ has_last_detections = Constructed(50, nms_threshold).has_last_detections
    /\ last_detections = Constructed(50, nms_threshold).last_detections
    /\ has_last_result_frame = Constructed(50, nms_threshold).has_last_result_frame
    /\ detections = <<>>
    /\ frame_path = "none"
    /\ invoked = FALSE
    /\ camera_open = FALSE
    /\ now = 0
    /\ keys_pressed = 0
    /\ fn_out = <<>>

ObjectVars ==
    << confidence_threshold, nms_threshold, running, frame_count, fps,
       last_time, using_picamera2, conveyor_speed, target_fps,
       adaptive_processing, speed_detection_enabled, production_line_mode,
       speed_detection_frames, pixel_to_meter_ratio, frame_skip_counter,
       frame_skip_interval, low_latency_enabled, has_last_detections,
       last_detections, has_last_result_frame >>

\* self.non_max_suppression(detections)
CallNonMaxSuppression ==
    /\ pc = "nms"
    /\ fn_in' = Call("non_max_suppression", fn_in.arg)
    /\ fn_out' = non_max_suppression(fn_in.arg, nms_threshold)
    /\ pc' = "returned"
    /\ UNCHANGED << ObjectVars, attempt, ArgVars, CallVars, camera_open, now,
                    keys_pressed >>

\* self.calculate_iou(box1, box2) on the first two boxes of the list
CallCalculateIou ==
    /\ pc = "nms"
    /\ Len(fn_in.arg) >= 2
    /\ fn_in' = Call("calculate_iou", fn_in.arg)
    /\ fn_out' = calculate_iou(fn_in.arg[1], fn_in.arg[2])
    /\ pc' = "returned"
    /\ UNCHANGED << ObjectVars, attempt, ArgVars, CallVars, camera_open, now,
                    keys_pressed >>

NextNms ==
    \/ CallNonMaxSuppression
    \/ CallCalculateIou

SpecNms == InitNms /\ [][NextNms]_vars

-----------------------------------------------------------------------------
(* config.py: the DetectionConfig object.  Fractions are in hundredths.    *)

\* The attributes DetectionConfig() sets for the thresholds and the ROI
DetectionConfig ==
    [CONFIDENCE_THRESHOLD |-> 50, NMS_THRESHOLD |-> 40, IOU_THRESHOLD |-> 50,
     ENABLE_ROI |-> TRUE,
     ROI_X1 |-> 10, ROI_Y1 |-> 10, ROI_X2 |-> 90, ROI_Y2 |-> 90]

\* _validate_config: FALSE when it raises ValueError
validate_config(config) ==
    /\ 0 <= config.CONFIDENCE_THRESHOLD /\ config.CONFIDENCE_THRESHOLD <= 100
    /\ 0 <= config.NMS_THRESHOLD /\ config.NMS_THRESHOLD <= 100
    /\ 0 <= config.IOU_THRESHOLD /\ config.IOU_THRESHOLD <= 100
    /\ config.ENABLE_ROI =>
          /\ 0 <= config.ROI_X1 /\ config.ROI_X1 < config.ROI_X2
          /\ config.ROI_X2 <= 100
          /\ 0 <= config.ROI_Y1 /\ config.ROI_Y1 < config.ROI_Y2
          /\ config.ROI_Y2 <= 100

\* get_roi_coordinates: <<x1, y1, x2, y2>> in pixels
get_roi_coordinates(config, image_width, image_height) ==
    IF ~config.ENABLE_ROI
    THEN <<0, 0, image_width, image_height>>
    ELSE << (config.ROI_X1 * image_width) \div 100,
            (config.ROI_Y1 * image_height) \div 100,
            (config.ROI_X2 * image_width) \div 100,
            (config.ROI_Y2 * image_height) \div 100 >>

\* is_in_roi: the centre ((x1 + x2) / 2, (y1 + y2) / 2) is inside the ROI
is_in_roi(config, detection, image_width, image_height) ==
    \/ ~config.ENABLE_ROI
    \/ /\ 2 * get_roi_coordinates(config, image_width, image_height)[1]
             <= detection.x1 + detection.x2
       /\ detection.x1 + detection.x2
             <= 2 * get_roi_coordinates(config, image_width, image_height)[3]
       /\ 2 * get_roi_coordinates(config, image_width, image_height)[2]
             <= detection.y1 + detection.y2
       /\ detection.y1 + detection.y2
             <= 2 * get_roi_coordinates(config, image_width, image_height)[4]

-----------------------------------------------------------------------------
(* detect called on its own on a freshly constructed detector              *)

\* Longest output tensor of the ramp family
MaxAnchors == 11

\* One-anchor tensors: centres inside, on the edge of and outside the frame,
\* widths negative, zero, ordinary and wider than the frame
AnchorCentresX == {-20, 5, 50, 100, 130}

AnchorCentresY == {-20, 50, 130}

AnchorWidths == {-20, 0, 20, 300}

AnchorHeights == {0, 20}

AnchorConfidences == {40, 90}

SingleAnchors ==
    { <<Anchor(cx, cy, w, h, confidence)>> :
        cx \in AnchorCentresX, cy \in AnchorCentresY, w \in AnchorWidths,
        h \in AnchorHeights, confidence \in AnchorConfidences }

\* Confidence of anchor i of a ramp: rising, falling, or repeating
RampConfidence(kind, i) ==
    IF kind = "up" THEN 60 + 3 * i
    ELSE IF kind = "down" THEN 100 - 3 * i
    ELSE 60 + 10 * (i % 3)

\* k anchors side by side
Ramp(kind, k) ==
    [i \in 1..k |-> Anchor(5 * i, 50, 4, 20, RampConfidence(kind, i))]

Ramps == { Ramp(kind, k) : kind \in {"up", "down", "ties"}, k \in 0..MaxAnchors }

DetectThresholds == {50, 80}

InitDetect ==
    /\ pc = "detect"
    /\ attempt = 1
    /\ args_target_fps = 60
    /\ args_low_latency = FALSE
    /\ nms_threshold = 40
    /\ \E c \in DetectThresholds, output \in SingleAnchors \cup Ramps :
          /\ confidence_threshold = c
          /\ fn_in = Call("none", output)
    /\ running = Constructed(confidence_threshold, 40).running
    /\ frame_count = Constructed(confidence_threshold, 40).frame_count
    /\ fps = Constructed(confidence_threshold, 40).fps
    /\ last_time = Constructed(confidence_threshold, 40).last_time
    /\ using_picamera2 = Constructed(confidence_threshold, 40).using_picamera2
    /\ conveyor_speed = Constructed(confidence_threshold, 40).conveyor_speed
    /\ target_fps = Constructed(confidence_threshold, 40).target_fps
    /\ adaptive_processing = Constructed(confidence_threshold, 40).adaptive_processing
    /\ speed_detection_enabled = Constructed(confidence_threshold, 40).speed_detection_enabled
    /\ production_line_mode = Constructed(confidence_threshold, 40).production_line_mode
    /\ speed_detection_frames = Constructed(confidence_threshold, 40).speed_detection_frames
    /\ pixel_to_meter_ratio = Constructed(confidence_threshold, 40).pixel_to_meter_ratio
    /\ frame_skip_counter = Constructed(confidence_threshold, 40).frame_skip_counter
    /\ frame_skip_interval = Constructed(confidence_threshold, 40).frame_skip_interval
    /\ low_latency_enabled = Constructed(confidence_threshold, 40).low_latency_enabled
    /\ has_last_detections = Constructed(confidence_threshold, 40).has_last_detections
    /\ last_detections = Constructed(confidence_threshold, 40).last_detections
    /\ has_last_result_frame = Constructed(confidence_threshold, 40).has_last_result_frame
    /\ detections = <<>>
    /\ frame_path = "none"
    /\ invoked = FALSE
    /\ camera_open = FALSE
    /\ now = 0
    /\ keys_pressed = 0
    /\ fn_out = <<>>

\* self.detect(image) with the interpreter returning the tensor
CallDetect ==
    /\ pc = "detect"
    /\ DetectReturns(detect(Self, fn_in.arg, TRUE))
    /\ fn_in' = Call("detect", fn_in.arg)
    /\ pc' = "returned"
    /\ UNCHANGED << attempt, ArgVars, CallVars, camera_open, now, keys_pressed >>

NextDetect == CallDetect

SpecDetect == InitDetect /\ [][NextDetect]_vars

-----------------------------------------------------------------------------
(* detect_conveyor_speed called on its own, pass after pass, on a detector  *)
(* in production line mode                                                  *)

\* Motion samples the harness lets the window hold
MaxSamples == 4

\* A packet detected with its centre at (x, y), in pixels
Packet(x, y) == Box(x - 20, y - 20, x + 20, y + 20, 90)

\* Three places along the belt and one across it
Packets == { Packet(100, 100), Packet(200, 100), Packet(300, 100),
             Packet(200, 300) }

\* The detections of one pass: none, one or two
PacketLists ==
    {<<>>} \cup { <<p>> : p \in Packets } \cup { <<p, q>> : p, q \in Packets }

\* What time.time() returns in a pass: within the first ticks, or five
\* seconds and more after the start
PassTimes == (0 .. MaxTime) \cup { 5 * TicksPerSec + t : t \in 0 .. 1 }

\* RaspberryMilkDetector(model), then enable_production_line_mode()
ConveyorDetector == enable_production_line_mode(Constructed(50, 40))

InitSpeed ==
    /\ pc = "speed"
    /\ attempt = 1
    /\ args_target_fps = 60
    /\ args_low_latency = FALSE
    /\ confidence_threshold = ConveyorDetector.confidence_threshold
    /\ nms_threshold = ConveyorDetector.nms_threshold
    /\ running = ConveyorDetector.running
    /\ frame_count = ConveyorDetector.frame_count
    /\ fps = ConveyorDetector.fps
    /\ last_time = ConveyorDetector.last_time
    /\ using_picamera2 = ConveyorDetector.using_picamera2
    /\ conveyor_speed = ConveyorDetector.conveyor_speed
    /\ target_fps = ConveyorDetector.target_fps
    /\ adaptive_processing = ConveyorDetector.adaptive_processing
    /\ speed_detection_enabled = ConveyorDetector.speed_detection_enabled
    /\ production_line_mode = ConveyorDetector.production_line_mode
    /\ speed_detection_frames = ConveyorDetector.speed_detection_frames
    /\ pixel_to_meter_ratio = ConveyorDetector.pixel_to_meter_ratio
    /\ frame_skip_counter = ConveyorDetector.frame_skip_counter
    /\ frame_skip_interval = ConveyorDetector.frame_skip_interval
    /\ low_latency_enabled = ConveyorDetector.low_latency_enabled
    /\ has_last_detections = ConveyorDetector.has_last_detections
    /\ last_detections = ConveyorDetector.last_detections
    /\ has_last_result_frame = ConveyorDetector.has_last_result_frame
    /\ detections = <<>>
    /\ frame_path = "none"
    /\ invoked = FALSE
    /\ camera_open = FALSE
    /\ now = 0
    /\ keys_pressed = 0
    /\ fn_in = Call("none", <<>>)
    /\ fn_out = <<>>

\* self.detect_conveyor_speed(detections, width, height) at current_time
CallDetectConveyorSpeed ==
    /\ pc = "speed"
    /\ \E dets \in PacketLists, current_time \in PassTimes :
          /\ current_time >= now
          /\ Len(speed_detection_frames) + Len(dets) <= MaxSamples
          /\ now' = current_time
          /\ Becomes(detect_conveyor_speed(Self, dets, current_time))
          /\ fn_in' = Call("detect_conveyor_speed", dets)
    /\ UNCHANGED << pc, attempt, ArgVars, CallVars, camera_open, keys_pressed,
                    fn_out >>

NextSpeed == CallDetectConveyorSpeed

SpecSpeed == InitSpeed /\ [][NextSpeed]_vars

-----------------------------------------------------------------------------
(* Properties *)

\* A process_frame call: the only step that counts a frame
FrameProcessed == frame_skip_counter' # frame_skip_counter

\* The first run of the loop, no key pressed, no conveyor mode and no
\* one-second reset of frame_count so far: frame_skip_interval has been fixed
\* since the loop started and frame_skip_counter - 1 is the index of the frame
\* just handled
IntervalHeldFixed ==
    /\ pc = "tail"
    /\ attempt = 1
    /\ keys_pressed = 0
    /\ ~production_line_mode
    /\ last_time = 0

\* C1: with frame_skip_interval = N held fixed, the frames that get a full
\* detection pass are exactly those whose index is a multiple of N, one of
\* every N consecutive frames; every other frame is skipped.
C1_OneFrameInEveryInterval ==
    IntervalHeldFixed =>
        ((frame_path = "pass") <=>
            ((frame_skip_counter - 1) % frame_skip_interval = 0))

\* C2: on every non-processing frame (frame_count is not a multiple of
\* frame_skip_interval) process_frame returns the cached detection list,
\* does not invoke the interpreter, and leaves last_detections, the
\* motion-sample window, conveyor_speed, frame_skip_interval and both
\* thresholds unchanged.
C2_SkippedFrameReusesCache ==
    [][(/\ FrameProcessed
        /\ frame_skip_interval > 1
        /\ frame_count % frame_skip_interval # 0)
       => (/\ frame_path' = "skip"
           /\ ~invoked'
           /\ detections' = last_detections
           /\ UNCHANGED << last_detections, speed_detection_frames,
                           conveyor_speed, frame_skip_interval,
                           confidence_threshold, nms_threshold >>)]_vars

\* A frame was skipped in conveyor mode while the cache held detections
C2_SkippedWithCachedDetections ==
    /\ frame_path = "skip"
    /\ production_line_mode
    /\ detections # <<>>

\* C3 as stated: after the inference call failed on a frame the camera loop
\* is still running, and the frame's result is the cached detection list.
C3_LoopSurvivesInferenceError ==
    frame_path = "error" => (running /\ pc \in {"read", "tail"})

\* C3 as amended: a failing inference call ends the camera loop: running
\* becomes false and the camera is released, no result is returned for the
\* frame and the cached list is left as it was; main then calls
\* start_camera_detection again after the first failure and ends after the
\* second.
C3_InferenceErrorEndsLoop ==
    [][(FrameProcessed /\ frame_path' = "error")
       => (/\ ~running'
           /\ ~camera_open'
           /\ UNCHANGED << detections, last_detections >>
           /\ pc' = IF attempt = 1 THEN "start" ELSE "crashed")]_vars

\* The inference call failed again after main's fallback
C3_FailedAfterFallback ==
    /\ frame_path = "error"
    /\ pc = "crashed"
    /\ ~running

\* Geometric intersection over union: the intersection rectangle spans the
\* max of the lower edges to the min of the upper edges on each axis
GeometricIoU(a, b) ==
    LET w == Min(a.x2, b.x2) - Max(a.x1, b.x1)
        h == Min(a.y2, b.y2) - Max(a.y1, b.y1)
        intersection == IF w > 0 /\ h > 0 THEN w * h ELSE 0
        union == (a.x2 - a.x1) * (a.y2 - a.y1)
                 + (b.x2 - b.x1) * (b.y2 - b.y1) - intersection
    IN  IF union > 0 THEN Rat(intersection, union) ELSE Zero

NonDegenerate(b) == b.x1 < b.x2 /\ b.y1 < b.y2

\* C4: no two boxes retained by non_max_suppression have geometric IoU
\* >= nms_threshold.
C4_RetainedBoxesBelowThreshold ==
    (pc = "returned" /\ fn_in.call = "non_max_suppression") =>
        \A i, j \in 1..Len(fn_out) :
            (i < j /\ NonDegenerate(fn_out[i]) /\ NonDegenerate(fn_out[j]))
            => RatLess(GeometricIoU(fn_out[i], fn_out[j]),
                       Rat(nms_threshold, 100))

\* C5: calculate_iou(a, b) is the intersection area over the union area, the
\* intersection taken geometrically; so calculate_iou(box, box) = 1.
C5_IouIsIntersectionOverUnion ==
    (/\ pc = "returned"
     /\ fn_in.call = "calculate_iou"
     /\ NonDegenerate(fn_in.arg[1])
     /\ NonDegenerate(fn_in.arg[2]))
    => fn_out = GeometricIoU(fn_in.arg[1], fn_in.arg[2])

\* Low-latency mode is on: enabled by main for --low-latency or by key 'l',
\* and not toggled off since
LowLatencyActive ==
    \/ low_latency_enabled = "true"
    \/ /\ args_low_latency
       /\ low_latency_enabled = "unset"
       /\ pc \notin {"main_perf", "main_conveyor", "main_low_latency"}

\* C6: while low-latency mode is on, frame_skip_interval = 1,
\* confidence_threshold <= 0.4 and nms_threshold <= 0.3 in every state.
C6_LowLatencyOverrides ==
    LowLatencyActive =>
        (/\ frame_skip_interval = 1
         /\ confidence_threshold <= 40
         /\ nms_threshold <= 30)

\* C7: frame_skip_interval >= 1 in every state, whatever is called with
\* whatever argument.
C7_FrameSkipIntervalAtLeastOne == frame_skip_interval >= 1

\* set_frame_skip was called with zero or a negative interval
C7_NonPositiveIntervalRequested ==
    /\ fn_in.call = "set_frame_skip"
    /\ fn_in.arg <= 0
    /\ frame_skip_interval = 1

\* C8: constructed with thresholds in [0, 1], both thresholds stay in [0, 1].
C8_ThresholdsInUnitInterval ==
    /\ 0 <= confidence_threshold /\ confidence_threshold <= 100
    /\ 0 <= nms_threshold /\ nms_threshold <= 100

\* Low-latency mode lowered the thresholds of a detector constructed with
\* both at 1.0, then the speed adjustment raised the confidence threshold
C8_LoweredThenRaised ==
    /\ fn_in.call = "auto_adjust_processing"
    /\ low_latency_enabled = "true"
    /\ confidence_threshold = 70
    /\ nms_threshold = 30

\* C9: optimize_for_performance(target_fps) sets frame_skip_interval to 1 for
\* target_fps >= 30, to 2 for 15 <= target_fps <= 29 and to 3 for
\* target_fps < 15.
C9_TargetFpsBands ==
    fn_in.call = "optimize_for_performance" =>
        /\ fn_in.arg >= 30 => frame_skip_interval = 1
        /\ (15 <= fn_in.arg /\ fn_in.arg <= 29) => frame_skip_interval = 2
        /\ fn_in.arg < 15 => frame_skip_interval = 3

\* optimize_for_performance was called at the lower edge of the middle band
C9_BandEdgeRequested ==
    /\ fn_in.call = "optimize_for_performance"
    /\ fn_in.arg = 15
    /\ frame_skip_interval = 2

\* C10: every detection detect returns has confidence >= the
\* confidence_threshold in force, and detect returns the empty list when
\* every anchor is below it.
C10_DetectionsMeetThreshold ==
    fn_in.call = "detect" =>
        /\ \A i \in 1..Len(fn_out) :
               fn_out[i].confidence >= confidence_threshold
        /\ (\A i \in 1..Len(fn_in.arg) :
                fn_in.arg[i].confidence < confidence_threshold)
           => fn_out = <<>>

\* detect dropped some anchors of the tensor and kept others
C10_SomeAnchorsDropped ==
    /\ fn_in.call = "detect"
    /\ fn_out # <<>>
    /\ Len(fn_out) < Len(fn_in.arg)

\* (cx -/+ w/2) * dim clamped to the frame, in 200ths of a pixel
ClampedTo(num, dim) == Min(Max(num * dim, 0), 200 * dim)

\* coord is the whole pixel of the clamped value
IsPixelOf(coord, num, dim) ==
    /\ 200 * coord <= ClampedTo(num, dim)
    /\ ClampedTo(num, dim) < 200 * coord + 200

\* detect returned one detection for a one-anchor tensor
DecodedOne ==
    /\ fn_in.call = "detect"
    /\ Len(fn_in.arg) = 1
    /\ Len(fn_out) = 1

\* C11: every decoded detection has 0 <= x1, x2 <= imageWidth and
\* 0 <= y1, y2 <= imageHeight, the coordinates being (cx -/+ w/2)*imageWidth
\* and (cy -/+ h/2)*imageHeight clamped to the frame.
C11_CoordinatesClampedToFrame ==
    fn_in.call = "detect" =>
        /\ \A i \in 1..Len(fn_out) :
              /\ fn_out[i].x1 \in 0..ImageWidth
              /\ fn_out[i].x2 \in 0..ImageWidth
              /\ fn_out[i].y1 \in 0..ImageHeight
              /\ fn_out[i].y2 \in 0..ImageHeight
        /\ DecodedOne =>
              /\ IsPixelOf(fn_out[1].x1, 2 * fn_in.arg[1].cx - fn_in.arg[1].w, ImageWidth)
              /\ IsPixelOf(fn_out[1].x2, 2 * fn_in.arg[1].cx + fn_in.arg[1].w, ImageWidth)
              /\ IsPixelOf(fn_out[1].y1, 2 * fn_in.arg[1].cy - fn_in.arg[1].h, ImageHeight)
              /\ IsPixelOf(fn_out[1].y2, 2 * fn_in.arg[1].cy + fn_in.arg[1].h, ImageHeight)

\* A box reaching past the right and lower edges was decoded
C11_BoxPastTheEdges ==
    /\ DecodedOne
    /\ 2 * fn_in.arg[1].cx + fn_in.arg[1].w > 200
    /\ 2 * fn_in.arg[1].cy + fn_in.arg[1].h > 200
    /\ fn_out[1].x2 = ImageWidth
    /\ fn_out[1].y2 = ImageHeight

CentredAnchorDetected ==
    /\ fn_in.call = "detect"
    /\ fn_in.arg = <<Anchor(50, 50, 20, 20, 90)>>
    /\ confidence_threshold = 50

WithinOnePixel(coord, expected) == Abs(coord - expected) <= 1

\* C13 as stated: that tensor gives exactly one detection, with x1=224,
\* y1=168, x2=416, y2=312 (each within 1 pixel), confidence 0.9, class 0.
C13_CentredAnchorAsStated ==
    CentredAnchorDetected =>
        /\ Len(fn_out) = 1
        /\ WithinOnePixel(fn_out[1].x1, 224)
        /\ WithinOnePixel(fn_out[1].y1, 168)
        /\ WithinOnePixel(fn_out[1].x2, 416)
        /\ WithinOnePixel(fn_out[1].y2, 312)
        /\ fn_out[1].confidence = 90
        /\ fn_out[1].class_id = 0

\* C13 as amended: the one detection has x1=256, y1=192, x2=384, y2=288
\* (each within 1 pixel), confidence 0.9 and class 0.
C13_CentredAnchorDecoded ==
    CentredAnchorDetected =>
        /\ Len(fn_out) = 1
        /\ WithinOnePixel(fn_out[1].x1, 256)
        /\ WithinOnePixel(fn_out[1].y1, 192)
        /\ WithinOnePixel(fn_out[1].x2, 384)
        /\ WithinOnePixel(fn_out[1].y2, 288)
        /\ fn_out[1].confidence = 90
        /\ fn_out[1].class_id = 0

\* The scenario ran and returned its detection
C13_CentredAnchorReturned ==
    /\ CentredAnchorDetected
    /\ pc = "returned"
    /\ fn_out # <<>>

\* a can be obtained from b by deleting elements
RECURSIVE IsSubSequence(_, _)
IsSubSequence(a, b) ==
    IF a = <<>> THEN TRUE
    ELSE IF b = <<>> THEN FALSE
    ELSE IF Head(a) = Head(b) THEN IsSubSequence(Tail(a), Tail(b))
    ELSE IsSubSequence(a, Tail(b))

\* The elements of dets of confidence c, in order
OfConfidence(dets, c) == SelectSeq(dets, LAMBDA d : d.confidence = c)

\* C14: the output of non_max_suppression holds only elements of its input,
\* unaltered, in order of non-increasing confidence, the elements of equal
\* confidence in their input order.
C14_SortedSubListOfInput ==
    (pc = "returned" /\ fn_in.call = "non_max_suppression") =>
        /\ \A i, j \in 1..Len(fn_out) :
              i < j => fn_out[i].confidence >= fn_out[j].confidence
        /\ \A c \in BoxConfidences :
              IsSubSequence(OfConfidence(fn_out, c), OfConfidence(fn_in.arg, c))
        /\ \A i \in 1..Len(fn_out) : fn_out[i].confidence \in BoxConfidences

\* Two different boxes of equal confidence came back in their input order
C14_TieKeptInInputOrder ==
    /\ pc = "returned"
    /\ fn_in.call = "non_max_suppression"
    /\ Len(fn_out) = 2
    /\ fn_out[1] # fn_out[2]
    /\ fn_out[1].confidence = fn_out[2].confidence
    /\ fn_out = fn_in.arg

\* calculate_iou returned for the first two boxes of the list
IouReturned == pc = "returned" /\ fn_in.call = "calculate_iou"

\* The two boxes share a region of positive area
Overlapping(a, b) ==
    /\ Min(a.x2, b.x2) > Max(a.x1, b.x1)
    /\ Min(a.y2, b.y2) > Max(a.y1, b.y1)

\* C15: calculate_iou(a, b) = calculate_iou(b, a) for every two boxes.
C15_IouSymmetric ==
    IouReturned => fn_out = calculate_iou(fn_in.arg[2], fn_in.arg[1])

\* calculate_iou ran on two different boxes that overlap
C15_DifferentOverlappingBoxes ==
    /\ IouReturned
    /\ NonDegenerate(fn_in.arg[1])
    /\ NonDegenerate(fn_in.arg[2])
    /\ Overlapping(fn_in.arg[1], fn_in.arg[2])
    /\ fn_in.arg[1].x2 # fn_in.arg[2].x2

\* C16: calculate_iou returns 0.0 for every pair of boxes that do not overlap
\* and for every pair with a zero-area or inverted box.
C16_NoOverlapGivesZero ==
    (/\ IouReturned
     /\ \/ ~Overlapping(fn_in.arg[1], fn_in.arg[2])
        \/ ~NonDegenerate(fn_in.arg[1])
        \/ ~NonDegenerate(fn_in.arg[2]))
    => fn_out = Zero

\* calculate_iou ran on an inverted box and an ordinary box
C16_InvertedBoxCompared ==
    /\ IouReturned
    /\ fn_in.arg[1].x2 < fn_in.arg[1].x1
    /\ NonDegenerate(fn_in.arg[2])
    /\ fn_out = Zero

\* The anchors of the tensor that pass the confidence filter
Candidates ==
    SelectSeq(fn_in.arg, LAMBDA a : a.confidence >= confidence_threshold)

\* How many elements of s have confidence c
CountOfConfidence(s, c) ==
    Cardinality({i \in 1..Len(s) : s[i].confidence = c})

\* C17: detect never returns more than 10 detections, and every candidate of
\* higher confidence than a returned detection is returned too.
C17_TopTenByConfidence ==
    fn_in.call = "detect" =>
        /\ Len(fn_out) <= 10
        /\ \A i \in 1..Len(fn_out), j \in 1..Len(Candidates) :
              Candidates[j].confidence > fn_out[i].confidence =>
                  CountOfConfidence(fn_out, Candidates[j].confidence)
                      = CountOfConfidence(Candidates, Candidates[j].confidence)

\* More than ten anchors passed the filter, the best of them last in the
\* tensor, and ten detections came back
C17_MoreThanTenCandidates ==
    /\ fn_in.call = "detect"
    /\ Len(Candidates) > 10
    /\ Len(fn_out) = 10
    /\ \A j \in 1..(Len(Candidates) - 1) :
          Candidates[j].confidence < Candidates[Len(Candidates)].confidence

\* C18: with ROI filtering enabled (the configuration's default) every
\* detection in detect's output has its centre inside the configured ROI.
C18_OutputInsideRoi ==
    (fn_in.call = "detect" /\ validate_config(DetectionConfig)
       /\ DetectionConfig.ENABLE_ROI) =>
        \A i \in 1..Len(fn_out) :
            is_in_roi(DetectionConfig, fn_out[i], ImageWidth, ImageHeight)

\* C19: the detection loop never runs with a confidence or NMS threshold
\* outside [0, 1], the values _validate_config rejects.
C19_LoopRunsValidated ==
    InLoop =>
        validate_config([DetectionConfig EXCEPT
                           !.CONFIDENCE_THRESHOLD = confidence_threshold,
                           !.NMS_THRESHOLD = nms_threshold])

\* C20: conveyor_speed >= 0 in every reachable state.
C20_SpeedNeverNegative == conveyor_speed.n >= 0

\* The camera loop has been left for good
LoopLeft == pc \in {"done", "exited", "crashed"}

\* C21: the camera loop ends on a quit key and on a failed frame read, and no
\* frame is processed after either; on every way out of the loop (quit, read
\* failure, interrupt, exception) running is false and the camera is released.
C21_LoopEndsStoppedAndReleased ==
    [][/\ (InLoop /\ ~InLoop') => (~running' /\ ~camera_open')
       /\ LoopLeft => (pc' = pc /\ frame_skip_counter' = frame_skip_counter)]_vars

\* The loop handled a frame and was then left by the quit key or a failed read
C21_LoopLeftAfterFrames ==
    /\ pc = "done"
    /\ frame_skip_counter > 0
    /\ ~running
    /\ ~camera_open

\* C25: auto_adjust_processing never lowers confidence_threshold: afterwards
\* it is at least its old value, at least 0.7 for a speed above 2.0 m/s and at
\* least 0.6 for a speed above 1.0 m/s; with a speed <= 0 nothing changes.
C25_AutoAdjustOnlyRaises ==
    [][fn_in'.call = "auto_adjust_processing"
       => (/\ confidence_threshold' >= confidence_threshold
           /\ RatLess(Rat(2, 1), conveyor_speed) => confidence_threshold' >= 70
           /\ RatLess(Rat(1, 1), conveyor_speed) => confidence_threshold' >= 60
           /\ ~RatLess(Zero, conveyor_speed) => UNCHANGED ObjectVars)]_vars

\* auto_adjust_processing ran at 3 m/s on a detector whose confidence
\* threshold was 1.0 and left it there
C25_HighThresholdKept ==
    /\ fn_in.call = "auto_adjust_processing"
    /\ conveyor_speed = Rat(3, 1)
    /\ confidence_threshold = 100

\* C29: for one conveyor speed, set_conveyor_speed and auto_adjust_processing
\* give the same frame_skip_interval: adjusting automatically right after the
\* speed was entered by hand leaves the interval as it was.
C29_ManualAndAutomaticAgree ==
    [][(/\ fn_in.call = "set_conveyor_speed"
        /\ RatLess(Zero, fn_in.arg)
        /\ fn_in'.call = "auto_adjust_processing")
       => frame_skip_interval' = frame_skip_interval]_vars

\* C30: the frame_skip_interval main has configured before the loop (by the
\* performance mode, --conveyor-speed and --low-latency) is not changed by
\* start_camera_detection / start_picamera2_detection.
C30_StartKeepsConfiguredInterval ==
    [][(pc = "start" /\ attempt = 1)
       => frame_skip_interval' = frame_skip_interval]_vars

\* C26: frame_count is incremented exactly once per loop iteration, on
\* processing and skipped frames alike: in the first run of the loop, until
\* the first one-second rollover resets it, frame_count is the number of
\* iterations completed (which the rollover then divides by the elapsed time).
C26_FrameCountCountsIterations ==
    (pc = "read" /\ attempt = 1 /\ last_time = 0) =>
        frame_count = frame_skip_counter

\* C27: detection is not starved by frame skipping: with frame_skip_interval
\* k held fixed a processing frame recurs within k iterations of the previous
\* one without the one-second reset of frame_count; for k <= 2 a skipped
\* frame is therefore followed by a processing frame.
C27_SkipFollowedByPass ==
    [][(/\ FrameProcessed
        /\ attempt = 1
        /\ keys_pressed = 0
        /\ ~production_line_mode
        /\ last_time = 0
        /\ frame_skip_interval <= 2
        /\ frame_path = "skip")
       => frame_path' # "skip"]_vars

\* C28: a cached result is not returned before it exists: the first frame the
\* detector handles gets a detection pass whatever frame_skip_interval is, and
\* process_frame takes its skip path only when last_detections and
\* last_result_frame have both been set by an earlier frame, and detect
\* returns last_detections in place of a pass only when it has been set.
C28_NoSkipBeforeCache ==
    [][FrameProcessed
       => (/\ frame_skip_counter = 0 => frame_path' \in {"pass", "error"}
           /\ frame_path' = "skip" =>
                 (has_last_detections /\ has_last_result_frame)
           /\ frame_path' = "cached" => has_last_detections)]_vars

\* The first frame of a run with frame_skip_interval above 1 got a detection
\* pass and the frame after it was served from the cache
C28_SkippedOnceCached ==
    /\ frame_skip_counter = 2
    /\ frame_skip_interval > 1
    /\ frame_path = "skip"
    /\ has_last_detections
    /\ has_last_result_frame

\* C22 as stated: after every pass of the speed estimator in conveyor mode, also a pass
\* without detections, the motion-sample window ends with one new sample per
\* detection of the pass and holds no sample that is five seconds or more
\* older than the pass.
C22_WindowFreshAfterPass ==
    fn_in.call = "detect_conveyor_speed" =>
        /\ Len(speed_detection_frames) >= Len(fn_in.arg)
        /\ SubSeq(speed_detection_frames,
                  Len(speed_detection_frames) - Len(fn_in.arg) + 1,
                  Len(speed_detection_frames))
              = MotionSamples(fn_in.arg, now)
        /\ \A i \in 1..Len(speed_detection_frames) :
              now - speed_detection_frames[i].timestamp < 5 * TicksPerSec

\* C22 as amended: after every pass of the speed estimator in conveyor mode
\* that had at least one detection, the motion-sample window ends with one
\* new sample per detection of the pass and holds no sample that is five
\* seconds or more older than the pass.
C22_WindowFreshAfterDetections ==
    (fn_in.call = "detect_conveyor_speed" /\ fn_in.arg # <<>>) =>
        /\ Len(speed_detection_frames) >= Len(fn_in.arg)
        /\ SubSeq(speed_detection_frames,
                  Len(speed_detection_frames) - Len(fn_in.arg) + 1,
                  Len(speed_detection_frames))
              = MotionSamples(fn_in.arg, now)
        /\ \A i \in 1..Len(speed_detection_frames) :
              now - speed_detection_frames[i].timestamp < 5 * TicksPerSec

\* A pass with one detection left its sample alone in the window after
\* earlier passes had stored enough samples to measure a speed
C22_OldSamplesDropped ==
    /\ fn_in.call = "detect_conveyor_speed"
    /\ Len(fn_in.arg) = 1
    /\ Len(speed_detection_frames) = 1
    /\ conveyor_speed # Zero

\* Every successive pair of `frames` moves at least as far across the belt
\* as along it: |dx| <= |dy|
VerticalDominant(frames) ==
    \A i \in 2..Len(frames) :
        Abs(frames[i].center_x - frames[i - 1].center_x)
            <= Abs(frames[i].center_y - frames[i - 1].center_y)

\* Nothing has been dropped from the window yet: it holds every sample fed to
\* the estimator since the detector was constructed
WindowIsHistory == now < 5 * TicksPerSec

\* C23: only successive sample pairs with |dx| > |dy| contribute to the speed
\* estimate: while every successive pair of the samples fed to the estimator
\* is vertical-dominant, the speed it reports is 0.
C23_VerticalMotionGivesZero ==
    (pc = "speed" /\ WindowIsHistory /\ VerticalDominant(speed_detection_frames))
        => conveyor_speed = Zero

\* Three or more samples were fed, a later one displaced along the belt but
\* further across it, and no speed was reported
C23_OnlyVerticalMotionFed ==
    /\ fn_in.call = "detect_conveyor_speed"
    /\ WindowIsHistory
    /\ Len(speed_detection_frames) >= 3
    /\ VerticalDominant(speed_detection_frames)
    /\ \E i \in 2..Len(speed_detection_frames) :
          /\ speed_detection_frames[i].timestamp
                > speed_detection_frames[i - 1].timestamp
          /\ speed_detection_frames[i].center_x
                # speed_detection_frames[i - 1].center_x
    /\ conveyor_speed = Zero

\* `frames` is a run of passes of m detections each, at increasing times, in
\* which every packet keeps its place in the list and its height in the
\* picture and all packets are displaced along the belt at one rate
UniformlyHorizontal(frames, m) ==
    /\ Len(frames) >= 2 * m
    /\ Len(frames) % m = 0
    /\ \A p \in 1..Len(frames) :
          frames[p].timestamp = frames[((p - 1) \div m) * m + 1].timestamp
    /\ frames[m + 1].center_x # frames[1].center_x
    /\ \A p \in 1..(Len(frames) - m) :
          /\ frames[p + m].timestamp > frames[p].timestamp
          /\ frames[p + m].center_y = frames[p].center_y
          /\ (frames[p + m].center_x - frames[p].center_x)
                * (frames[m + 1].timestamp - frames[1].timestamp)
             = (frames[m + 1].center_x - frames[1].center_x)
                * (frames[p + m].timestamp - frames[p].timestamp)

\* r / pixel_to_meter_ratio for the rate r of such a run, in m/s
ExpectedSpeed(frames, m, ratio) ==
    Rat(Abs(frames[m + 1].center_x - frames[1].center_x) * TicksPerSec,
        2 * ratio * (frames[m + 1].timestamp - frames[1].timestamp))

\* |speed - expected| <= 5% of expected
WithinFivePercent(speed, expected) ==
    20 * Abs(speed.n * expected.d - expected.n * speed.d)
        <= expected.n * speed.d

\* The measurement claimed for passes of m detections
MeasuredAtRate(m) ==
    (/\ UniformlyHorizontal(speed_detection_frames, m)
     /\ RatLess(Rat(1, 100),
                ExpectedSpeed(speed_detection_frames, m, pixel_to_meter_ratio))
     /\ RatLess(ExpectedSpeed(speed_detection_frames, m, pixel_to_meter_ratio),
                Rat(10, 1)))
    => WithinFivePercent(conveyor_speed,
           ExpectedSpeed(speed_detection_frames, m, pixel_to_meter_ratio))

\* C24: when every detected centroid moves strictly horizontally at one rate
\* of r pixels per second (one or more detections per frame, three or more
\* samples in the window, r / pixel_to_meter_ratio within 0.01 .. 10 m/s),
\* the published conveyor_speed is r / pixel_to_meter_ratio within 5%.
C24_HorizontalRateMeasured ==
    (pc = "speed" /\ WindowIsHistory /\ Len(speed_detection_frames) >= 3) =>
        \A m \in 1..Len(speed_detection_frames) : MeasuredAtRate(m)

=============================================================================
